---- MODULE Spec2Model ----
(***************************************************************************)
(* Model of the signature-to-schema compiler of autoagent/util.py:         *)
(* get_type_info (the type resolver with its record extraction) and        *)
(* function_to_json (the signature compiler).                              *)
(*                                                                         *)
(* Python values are represented as follows.                               *)
(*   dict with string keys, insertion ordered : a sequence of <<key, value>>*)
(*       pairs when the keys are data (properties, $defs), a record when   *)
(*       the keys are fixed by the code ("type", "items", ...);            *)
(*   list                                      : a sequence;               *)
(*   the JSON value false                      : the record False;         *)
(*   a raised ValueError                       : the record ValueError;    *)
(*   "$ref": "#/$defs/Name"                    : field ref, holding the    *)
(*       string as its "/"-separated segments <<"#", "$defs", "Name">>.    *)
(***************************************************************************)
EXTENDS Integers, Sequences, FiniteSets, TLC

VARIABLES ann, node, callable, descriptor, batch, results,
          classes, stack, outcome,
          sent, pending, partial_line, calls, ret

compilerVars == <<ann, node, callable, descriptor>>

batchVars == <<batch, results>>

\* the call stack of a get_type_info call over classes that refer to classes
recursionVars == <<classes, stack, outcome>>

\* run_command_in_container: the bytes the container sends, those not yet
\* received, the function's partial_line, the stream_callback calls, the result
streamVars == <<sent, pending, partial_line, calls, ret>>

vars == <<compilerVars, batchVars, recursionVars, streamVars>>

(***************************************************************************)
(* Bounds of the input universe.                                           *)
(***************************************************************************)
MaxMembers == 3
MaxFields == 2
MaxKeys == 2
MaxProps == 2
MaxParams == 2
MaxBatch == 3
MaxClassFields == 2
\* the interpreter's recursion limit, in get_type_info frames
RecursionLimit == 5
MaxLines == 2

(***************************************************************************)
(* Generic helpers for Python containers.                                  *)
(***************************************************************************)
Last(s) == s[Len(s)]

Range(s) == {s[i] : i \in 1..Len(s)}

\* dict.get(key, default) on a dict whose keys are fixed strings
Get(d, key, default) == IF key \in DOMAIN d THEN d[key] ELSE default

\* key in d, for an ordered dict held as a sequence of pairs
DictHas(d, key) == \E i \in 1..Len(d) : d[i][1] = key

\* d[key], for an ordered dict held as a sequence of pairs
DictGet(d, key) == d[CHOOSE i \in 1..Len(d) : d[i][1] = key][2]

\* list(d.keys())
DictKeys(d) == [i \in 1..Len(d) |-> d[i][1]]

\* all sequences over S of length lo..hi
SeqsOf(S, lo, hi) == UNION {[1..n -> S] : n \in lo..hi}

\* all sequences without repetition over S of length lo..hi
DistinctSeqsOf(S, lo, hi) ==
    {s \in SeqsOf(S, lo, hi) : \A i, j \in 1..Len(s) : i # j => s[i] # s[j]}

(***************************************************************************)
(* Values of the output.                                                   *)
(***************************************************************************)
False == [const |-> FALSE]

ValueError == [error |-> "ValueError"]

\* the ValueError function_to_json raises when inspect.signature fails
SignatureError ==
    [error |-> "ValueError", message |-> "Failed to get signature"]

IsError(n) == "error" \in DOMAIN n

NotCalled == [called |-> FALSE]

(***************************************************************************)
(* Type annotations.                                                       *)
(***************************************************************************)
Scalar(name) == [kind |-> "Scalar", name |-> name]

Sequence(element) == [kind |-> "Sequence", args |-> <<element>>]

Mapping(key, value) == [kind |-> "Mapping", args |-> <<key, value>>]

Union(members) == [kind |-> "Union", args |-> members]

\* a pydantic BaseModel subclass, given by what model_json_schema() returns
ValidatedRecord(schema) == [kind |-> "ValidatedRecord", schema |-> schema]

\* a dataclass, given by what dataclasses.fields() returns
PlainRecord(fs) == [kind |-> "PlainRecord", fields |-> fs]

\* a TypedDict: __annotations__ and __required_keys__ (in iteration order)
StructuralMapping(anns, required_keys) ==
    [kind |-> "StructuralMapping", annotations |-> anns,
     required_keys |-> required_keys]

\* a class with __annotations__ and no __required_keys__
AnnotatedClass(anns) == [kind |-> "StructuralMapping", annotations |-> anns]

\* an annotation no branch recognises: bytes (no origin), Tuple[int] (origin)
Unknown(origin) == [kind |-> "Unknown", origin |-> origin]

MISSING == "MISSING"

Field(name, type, default, default_factory) ==
    [name |-> name, type |-> type, default |-> default,
     default_factory |-> default_factory]

str == Scalar("str")

int == Scalar("int")

NoneType == Scalar("NoneType")

(***************************************************************************)
(* function_to_json's type_map, passed to get_type_info as base_type_map.  *)
(***************************************************************************)
type_map ==
    [str |-> "string", int |-> "integer", float |-> "number",
     bool |-> "boolean", NoneType |-> "null"]

\* annotation in base_type_map
InBaseTypeMap(a, base_type_map) ==
    a.kind = "Scalar" /\ a.name \in DOMAIN base_type_map

\* typing.get_origin
get_origin(a) ==
    CASE a.kind = "Sequence" -> "list"
      [] a.kind = "Mapping" -> "dict"
      [] a.kind = "Union" -> "Union"
      [] a.kind = "Unknown" -> a.origin
      [] OTHER -> "None"

\* typing.get_args
get_args(a) == a.args

\* isinstance(a, type) and issubclass(a, BaseModel)
IsBaseModel(a) == a.kind = "ValidatedRecord"

is_dataclass(a) == a.kind = "PlainRecord"

\* hasattr(a, "__annotations__"): true of every class defined in Python
HasAnnotations(a) ==
    a.kind \in {"ValidatedRecord", "PlainRecord", "StructuralMapping"}

(***************************************************************************)
(* get_type_info: the type resolver and the record schema extraction.      *)
(***************************************************************************)
RECURSIVE get_type_info(_, _)

\* StringNode with the fallback raising instead
StringNodeRaises == [error |-> "ValueError"]

\* line 330: the default at the end of get_type_info
StringNode == [type |-> "string"]

\* KeyCheckFails comparing what the key resolves to, not the key itself
KeyCheckFailsResolved(key_type) ==
    get_type_info(key_type, type_map) # [type |-> "string"]

\* line 220: the key check of the Dict branch
KeyCheckFails(key_type) == key_type # str

\* IsRecordValue without the hasattr(value_type, "__annotations__") test
IsRecordValueBaseModelOnly(value_type) == IsBaseModel(value_type)

\* lines 224-225: is the Dict's value type a TypedDict or a pydantic model
IsRecordValue(value_type) ==
    HasAnnotations(value_type) \/ IsBaseModel(value_type)

\* UnionResult without the single-member return of lines 242-243
UnionResultAlwaysOneOf(types) == [oneOf |-> types]

\* lines 242-244: the result of the Union branch from the resolved members
UnionResult(types) == IF Len(types) = 1 THEN types[1] ELSE [oneOf |-> types]

\* InlineRef leaving every property as it was exported
InlineRefNever(prop_schema, definitions) == prop_schema

\* lines 265-268: one property of a pydantic schema, inlined if it is a $ref
InlineRef(prop_schema, definitions) ==
    IF "ref" \in DOMAIN prop_schema
    THEN LET ref_name == Last(prop_schema.ref)
         IN IF DictHas(definitions, ref_name)
            THEN DictGet(definitions, ref_name)
            ELSE prop_schema
    ELSE prop_schema

\* lines 255-275: the pydantic branch
PydanticSchema(annotation) ==
    LET schema == annotation.schema
        properties == Get(schema, "properties", <<>>)
        required == Get(schema, "required", <<>>)
        definitions == Get(schema, "defs", <<>>)
        expanded ==
            IF definitions # <<>>
            THEN [i \in 1..Len(properties) |->
                    <<properties[i][1],
                      InlineRef(properties[i][2], definitions)>>]
            ELSE properties
    IN [type |-> "object", properties |-> expanded, required |-> required,
        additionalProperties |-> False]

\* FieldRequired looking at the default only, not at the default_factory
FieldRequiredDefaultOnly(field) == field.default = MISSING

\* line 297: a dataclass field is required
FieldRequired(field) ==
    field.default = field.default_factory /\ field.default_factory = MISSING

\* TypedDictRequired ignoring __required_keys__
TypedDictRequiredAllKeys(annotation) == DictKeys(annotation.annotations)

\* line 317: the required keys of a TypedDict
TypedDictRequired(annotation) ==
    Get(annotation, "required_keys", DictKeys(annotation.annotations))

\* lines 294-298: the names of the required fields, in declaration order
RECURSIVE RequiredFields(_)
RequiredFields(fs) ==
    IF fs = <<>> THEN <<>>
    ELSE (IF FieldRequired(fs[1]) THEN <<fs[1].name>> ELSE <<>>)
         \o RequiredFields(Tail(fs))

\* some get_type_info call of a loop raised
AnyError(nodes) == \E i \in 1..Len(nodes) : IsError(nodes[i])

get_type_info(annotation, base_type_map) ==
    LET origin == get_origin(annotation)
        args == get_args(annotation)
        Rest ==
            IF IsBaseModel(annotation) THEN PydanticSchema(annotation)
            ELSE IF is_dataclass(annotation) THEN
                LET fs == annotation.fields
                    types == [i \in 1..Len(fs) |->
                                get_type_info(fs[i].type, base_type_map)]
                IN IF AnyError(types) THEN ValueError
                   ELSE [type |-> "object",
                         properties |->
                            [i \in 1..Len(fs) |-> <<fs[i].name, types[i]>>],
                         required |-> RequiredFields(fs),
                         additionalProperties |-> False]
            ELSE IF HasAnnotations(annotation) THEN
                LET anns == annotation.annotations
                    required == TypedDictRequired(annotation)
                    types == [i \in 1..Len(anns) |->
                                get_type_info(anns[i][2], base_type_map)]
                IN IF AnyError(types) THEN ValueError
                   ELSE [type |-> "object",
                         properties |->
                            [i \in 1..Len(anns) |-> <<anns[i][1], types[i]>>],
                         required |-> required,
                         additionalProperties |-> False]
            ELSE StringNode
    IN IF InBaseTypeMap(annotation, base_type_map)
       THEN [type |-> base_type_map[annotation.name]]
       ELSE IF origin = "list" THEN
            LET items == get_type_info(args[1], base_type_map)
            IN IF IsError(items) THEN ValueError
               ELSE [type |-> "array", items |-> items]
       ELSE IF origin = "dict" THEN
            LET key_type == args[1]
                value_type == args[2]
            IN IF KeyCheckFails(key_type) THEN ValueError
               ELSE IF IsRecordValue(value_type)
                    THEN get_type_info(value_type, base_type_map)
               ELSE LET value == get_type_info(value_type, base_type_map)
                    IN IF IsError(value) THEN ValueError
                       ELSE [type |-> "object",
                             additionalProperties |-> value]
       ELSE IF origin = "Union" THEN
            LET kept == SelectSeq(args, LAMBDA arg : arg # NoneType)
                types == [i \in 1..Len(kept) |->
                            get_type_info(kept[i], base_type_map)]
            IN IF AnyError(types) THEN ValueError ELSE UnionResult(types)
       ELSE Rest

(***************************************************************************)
(* function_to_json: the signature compiler.                               *)
(*   A callable is a record [name, signature] with an optional doc (absent *)
(*   when __doc__ is None); an opaque callable, for which inspect.signature*)
(*   raises ValueError, has no signature.  A parameter is [name,           *)
(*   annotation, default], default being "_empty" when there is none.      *)
(***************************************************************************)
Param(name, annotation, default) ==
    [name |-> name, annotation |-> annotation, default |-> default]

\* IsReserved with the skip of line 386-387 left out
IsReservedNever(param) == FALSE

\* line 386: the parameter is the reserved context parameter
IsReserved(param) == param.name = "context_variables"

\* del param_info["additionalProperties"], when the key is there
DelAdditionalProperties(param_info) ==
    IF "additionalProperties" \in DOMAIN param_info
    THEN [k \in DOMAIN param_info \ {"additionalProperties"} |->
            param_info[k]]
    ELSE param_info

\* StoredParamInfo storing param_info, the dict the key was deleted from
StoredParamInfoStripped(annotation) ==
    DelAdditionalProperties(get_type_info(annotation, type_map))

\* lines 389-392: what the loop stores under the parameter's name.  The
\* key is deleted from the dict of a first call, param_info, and the dict
\* of a second call is stored.
StoredParamInfo(annotation) ==
    LET param_info == DelAdditionalProperties(get_type_info(annotation, type_map))
    IN get_type_info(annotation, type_map)

\* ParametersRaise with the ValueError swallowed by the loop
ParametersRaiseNever(params) == FALSE

\* lines 385-394: some get_type_info call of the loop raises; a ValueError
\* is not caught (only KeyError is)
ParametersRaise(params) ==
    \E i \in 1..Len(params) :
        ~IsReserved(params[i]) /\ IsError(StoredParamInfo(params[i].annotation))

\* lines 376-394: the parameters dict the loop builds
RECURSIVE CompileParameters(_)
CompileParameters(params) ==
    IF params = <<>> THEN <<>>
    ELSE IF IsReserved(params[1]) THEN CompileParameters(Tail(params))
    ELSE <<<<params[1].name, StoredParamInfo(params[1].annotation)>>>>
         \o CompileParameters(Tail(params))

\* line 401: the parameter has no default
HasNoDefault(param) == param.default = "_empty"

\* lines 398-402: the required list
RECURSIVE SignatureRequired(_)
SignatureRequired(params) ==
    IF params = <<>> THEN <<>>
    ELSE (IF HasNoDefault(params[1]) THEN <<params[1].name>> ELSE <<>>)
         \o SignatureRequired(Tail(params))

\* line 415: func.__doc__ or ""
Description(func) ==
    IF "doc" \in DOMAIN func /\ func.doc # "" THEN func.doc ELSE ""

\* OnSignatureError returning a descriptor without parameters
OnSignatureErrorEmpty(func) ==
    [type |-> "function",
     function |->
        [name |-> func.name, description |-> "",
         parameters |->
            [type |-> "object", properties |-> <<>>, required |-> <<>>]]]

\* lines 371-374: inspect.signature raised ValueError
OnSignatureError(func) == SignatureError

function_to_json(func) ==
    IF "signature" \notin DOMAIN func THEN OnSignatureError(func)
    ELSE IF ParametersRaise(func.signature) THEN ValueError
    ELSE [type |-> "function",
          function |->
            [name |-> func.name,
             description |-> Description(func),
             parameters |->
                [type |-> "object",
                 properties |-> CompileParameters(func.signature),
                 required |-> SignatureRequired(func.signature)]]]

(***************************************************************************)
(* The inputs: annotations and callables.                                  *)
(***************************************************************************)
Atoms ==
    {Scalar(n) : n \in DOMAIN type_map} \cup {Unknown("None"), Unknown("tuple")}

Optional(a) == Union(<<a, NoneType>>)

\* Dict[int, str]: a mapping whose key is not str
BadMapping == Mapping(int, str)

\* @dataclass class P: a: int; b: int = 0
SamplePlain ==
    PlainRecord(<<Field("a", int, MISSING, MISSING), Field("b", int, "0", MISSING)>>)

\* class T(TypedDict): a: str; b: NotRequired[int]
SampleStruct == StructuralMapping(<<<<"a", str>>, <<"b", int>>>>, <<"a">>)

\* what model_json_schema() exports: properties always, required and $defs
\* only when not empty
Export(props, req, defs) ==
    CASE req = <<>> /\ defs = <<>> ->
            [properties |-> props, title |-> "Model", type |-> "object"]
      [] req # <<>> /\ defs = <<>> ->
            [properties |-> props, required |-> req, title |-> "Model",
             type |-> "object"]
      [] req = <<>> /\ defs # <<>> ->
            [properties |-> props, defs |-> defs, title |-> "Model",
             type |-> "object"]
      [] OTHER ->
            [properties |-> props, required |-> req, defs |-> defs,
             title |-> "Model", type |-> "object"]

Ref(name) == [ref |-> <<"#", "$defs", name>>]

\* class Leaf(BaseModel): x: int
LeafBody ==
    [type |-> "object", properties |-> <<<<"x", [type |-> "integer"]>>>>,
     required |-> <<"x">>, title |-> "Leaf"]

\* class Sub(BaseModel): leaf: Leaf
SubBody ==
    [type |-> "object", properties |-> <<<<"leaf", Ref("Leaf")>>>>,
     required |-> <<"leaf">>, title |-> "Sub"]

DefsLeaf == <<<<"Leaf", LeafBody>>>>

DefsSubLeaf == <<<<"Leaf", LeafBody>>, <<"Sub", SubBody>>>>

\* the property schemas a model exports next to each $defs
ExportProps(defs) ==
    {[type |-> "string"], [type |-> "integer"]}
    \cup (IF defs = <<>> THEN {[type |-> "array", items |-> [type |-> "string"]]}
          ELSE {Ref("Leaf"),
                [type |-> "array", items |-> Ref("Leaf")],
                [anyOf |-> <<Ref("Leaf"), [type |-> "null"]>>]})
    \cup (IF defs = DefsSubLeaf THEN {Ref("Sub")} ELSE {})
    \* p: Leaf = Field(description="d") exports the reference with a sibling
    \cup (IF defs = DefsLeaf
          THEN {[ref |-> <<"#", "$defs", "Leaf">>, description |-> "d"]}
          ELSE {})
    \* a reference written by hand (json_schema_extra) to a definition that
    \* the export does not hold
    \cup {Ref("Gone")}

\* class M(BaseModel): p: Leaf
SampleValid == ValidatedRecord(Export(<<<<"p", Ref("Leaf")>>>>, <<"p">>, DefsLeaf))

Names == <<"a", "b", "c", "d">>

\* the subsequences of 1..n, as sequences of names
RECURSIVE SubSeqNames(_, _)
SubSeqNames(i, n) ==
    IF i > n THEN {<<>>}
    ELSE LET rest == SubSeqNames(i + 1, n)
         IN rest \cup {<<Names[i]>> \o r : r \in rest}

Elems ==
    Atoms \cup
    {Sequence(int), Sequence(Sequence(Unknown("None"))), Mapping(str, int),
     Mapping(str, SamplePlain), BadMapping, Optional(str),
     SamplePlain, SampleStruct, SampleValid}

Sequences == {Sequence(e) : e \in Elems}

KeyTypes ==
    {str, int, NoneType, Unknown("None"), Optional(str), Sequence(str),
     SamplePlain}

Mappings == {Mapping(k, v) : k \in KeyTypes, v \in Elems}

\* typing.Union keeps two or more members, distinct and none a Union
UnionMembers == {e \in Elems : e.kind # "Union"}

Unions == {Union(m) : m \in DistinctSeqsOf(UnionMembers, 2, MaxMembers)}

FieldTypes ==
    {int, Optional(str), Sequence(int), Unknown("None"), BadMapping, SamplePlain}

\* a field has a default, a default_factory or neither
Defaults == {<<MISSING, MISSING>>, <<"0", MISSING>>, <<MISSING, "list">>}

PlainRecords ==
    {PlainRecord([i \in 1..Len(s) |->
                    Field(Names[i], s[i][1], s[i][2][1], s[i][2][2])]) :
        s \in SeqsOf(FieldTypes \X Defaults, 0, MaxFields)}

KeyAnnotations(t) == [i \in 1..Len(t) |-> <<Names[i], t[i]>>]

StructuralMappings ==
    UNION {{AnnotatedClass(KeyAnnotations(t))}
           \cup {StructuralMapping(KeyAnnotations(t), r) :
                    r \in DistinctSeqsOf({Names[i] : i \in 1..Len(t)}, 0, Len(t))} :
        t \in SeqsOf(FieldTypes, 0, MaxKeys)}

ValidatedRecords ==
    UNION {UNION {{ValidatedRecord(Export(KeyAnnotations(p), r, d)) :
                        r \in SubSeqNames(1, Len(p))} :
                    p \in SeqsOf(ExportProps(d), 0, MaxProps)} :
            d \in {<<>>, DefsLeaf, DefsSubLeaf}}

Annotations ==
    Elems \cup Sequences \cup Mappings \cup Unions \cup PlainRecords
    \cup StructuralMappings \cup ValidatedRecords

ParamNames == {"context_variables", "query", "limit"}

ParamTypes ==
    {str, int, Unknown("None"), Optional(int), Mapping(str, int),
     Mapping(str, SamplePlain), BadMapping, SamplePlain, SampleStruct,
     SampleValid}

\* Python rejects two parameters of one name
Signatures ==
    {[i \in 1..Len(s) |-> Param(s[i][1], s[i][2], s[i][3])] :
        s \in {t \in SeqsOf(ParamNames \X ParamTypes \X {"_empty", "10"},
                            0, MaxParams) :
                \A i, j \in 1..Len(t) : i # j => t[i][1] # t[j][1]}}

\* a builtin without a recoverable signature
OpaqueCallable == [name |-> "opaque", doc |-> "Native."]

\* annotations that hold Dict[int, str] below the top, one per position
NestedTypes ==
    {str, BadMapping, Sequence(BadMapping), Optional(BadMapping),
     Union(<<int, BadMapping>>), Mapping(str, BadMapping),
     PlainRecord(<<Field("a", int, MISSING, MISSING),
                   Field("b", BadMapping, MISSING, MISSING)>>),
     StructuralMapping(<<<<"a", Sequence(BadMapping)>>>>, <<"a">>),
     Mapping(str, PlainRecord(<<Field("a", BadMapping, "0", MISSING)>>))}

\* def lookup(limit: T), def lookup(query: str, limit: T = 10), ...
NestedSignatures ==
    UNION {{<<Param("limit", t, d)>>,
            <<Param("query", str, "_empty"), Param("limit", t, d)>>,
            <<Param("limit", t, d), Param("query", str, "10")>>,
            <<Param("context_variables", t, d), Param("query", str, "_empty")>>} :
                t \in NestedTypes, d \in {"_empty", "10"}}

Callables ==
    {[name |-> "search", signature |-> sig] : sig \in Signatures}
    \cup {[name |-> "search", doc |-> "Searches.", signature |-> sig] :
            sig \in Signatures}
    \cup {[name |-> "lookup", signature |-> sig] : sig \in NestedSignatures}
    \cup {OpaqueCallable}

(***************************************************************************)
(* The state machine: an annotation is resolved, a callable is compiled.   *)
(***************************************************************************)
NoInput == [absent |-> TRUE]

\* def search(query: str): "Searches."
SearchCallable ==
    [name |-> "search", doc |-> "Searches.",
     signature |-> <<Param("query", str, "_empty")>>]

\* def lookup(table: Dict[int, str], limit: int = 10)
LookupCallable ==
    [name |-> "lookup",
     signature |-> <<Param("table", BadMapping, "_empty"),
                     Param("limit", int, "10")>>]

\* def remember(context_variables, note: Optional[str] = None)
RememberCallable ==
    [name |-> "remember",
     signature |-> <<Param("context_variables", Unknown("None"), "_empty"),
                     Param("note", Optional(str), "10")>>]

BatchCallables ==
    {OpaqueCallable, SearchCallable, LookupCallable, RememberCallable}

\* the tool lists handed to the compiler
Batches == {[callables |-> fs] : fs \in SeqsOf(BatchCallables, 1, MaxBatch)}

\* a batch of callables is compiled: every callable is compiled on its own
\* and its descriptor, or the error it raised, is reported for it
compile_batch(fs) == [i \in 1..Len(fs) |-> function_to_json(fs[i])]

IdleCompiler ==
    ann = NoInput /\ node = NotCalled /\ callable = NoInput
    /\ descriptor = NotCalled

IdleBatch == batch = NoInput /\ results = NotCalled

IdleRecursion == classes = NoInput /\ stack = <<>> /\ outcome = "idle"

IdleStream ==
    /\ sent = <<>>
    /\ pending = <<>>
    /\ partial_line = <<>>
    /\ calls = <<>>
    /\ ret = NotCalled

InitCompiler ==
    /\ node = NotCalled
    /\ descriptor = NotCalled
    /\ \/ ann \in Annotations /\ callable = NoInput
       \/ callable \in Callables /\ ann = NoInput
    /\ IdleBatch
    /\ IdleRecursion
    /\ IdleStream

InitBatch ==
    /\ batch \in Batches
    /\ results = NotCalled
    /\ IdleCompiler
    /\ IdleRecursion
    /\ IdleStream

(***************************************************************************)
(* get_type_info over classes whose fields are typed by classes.  A field  *)
(* type Class(n) is the class object n of the environment; the call stack  *)
(* holds one frame per get_type_info call in progress, with the annotation *)
(* of the call and the index of the next recursive call it makes.          *)
(***************************************************************************)
Class(name) == [kind |-> "Class", name |-> name]

\* the annotations get_type_info(annotation) calls itself on, in order
Callees(annotation, base_type_map) ==
    LET origin == get_origin(annotation)
        args == get_args(annotation)
    IN IF InBaseTypeMap(annotation, base_type_map) THEN <<>>
       ELSE IF origin = "list" THEN <<args[1]>>
       ELSE IF origin = "dict" THEN
            (IF KeyCheckFails(args[1]) THEN <<>> ELSE <<args[2]>>)
       ELSE IF origin = "Union" THEN SelectSeq(args, LAMBDA arg : arg # NoneType)
       ELSE IF IsBaseModel(annotation) THEN <<>>
       ELSE IF is_dataclass(annotation)
            THEN [i \in 1..Len(annotation.fields) |-> annotation.fields[i].type]
       ELSE IF HasAnnotations(annotation)
            THEN [i \in 1..Len(annotation.annotations) |->
                    annotation.annotations[i][2]]
       ELSE <<>>

\* line 220-221: the call raises at the key check
RaisesKeyError(annotation, base_type_map) ==
    /\ ~InBaseTypeMap(annotation, base_type_map)
    /\ get_origin(annotation) = "dict"
    /\ KeyCheckFails(get_args(annotation)[1])

\* the object an annotation denotes
Deref(a, env) == IF a.kind = "Class" THEN env[a.name] ELSE a

Frame(annotation) == [annotation |-> annotation, next |-> 1]

ClassNames == {"A", "B"}

FieldTypesOfA ==
    {int, Class("A"), Sequence(Class("B")), Optional(Class("A")), BadMapping}

FieldTypesOfB == {int, Class("B"), Mapping(str, Class("A"))}

\* class A is a dataclass, class B a TypedDict
ClassEnvironments ==
    {[A |-> PlainRecord([i \in 1..Len(fa) |->
                            Field(Names[i], fa[i], MISSING, MISSING)]),
      B |-> AnnotatedClass(KeyAnnotations(fb))] :
        fa \in SeqsOf(FieldTypesOfA, 1, MaxClassFields),
        fb \in SeqsOf(FieldTypesOfB, 1, MaxClassFields)}

\* get_type_info(A, type_map) is called
InitRecursion ==
    /\ classes \in ClassEnvironments
    /\ stack = <<Frame(classes["A"])>>
    /\ outcome = "running"
    /\ IdleCompiler
    /\ IdleBatch
    /\ IdleStream

(***************************************************************************)
(* run_command_in_container.  The container's stream is a sequence of      *)
(* bytes.  A message line is written by its tag byte and its payload:      *)
(* "c" p is {"type": "chunk", "data": p}, "f" p is {"type": "final",       *)
(* "status": 0, "result": p}, "o" is a JSON object of another type, "?" is *)
(* text that is not JSON.  The bytes C3 A9 encode one character, U+00E9.   *)
(***************************************************************************)
buffer_size == 4096

NL == "\n"

Min(a, b) == IF a < b THEN a ELSE b

\* chunk.decode('utf-8') raises UnicodeDecodeError
RECURSIVE DecodeRaises(_)
DecodeRaises(bytes) ==
    IF bytes = <<>> THEN FALSE
    ELSE IF Head(bytes) = "C3"
         THEN \/ Len(bytes) < 2
              \/ bytes[2] # "A9"
              \/ DecodeRaises(SubSeq(bytes, 3, Len(bytes)))
    ELSE IF Head(bytes) = "A9" THEN TRUE
    ELSE DecodeRaises(Tail(bytes))

\* chunk.decode('utf-8'), where it does not raise
RECURSIVE decode(_)
decode(bytes) ==
    IF bytes = <<>> THEN <<>>
    ELSE IF Head(bytes) = "C3"
         THEN <<"U+00E9">> \o decode(SubSeq(bytes, 3, Len(bytes)))
    ELSE <<Head(bytes)>> \o decode(Tail(bytes))

\* data.split('\n')
RECURSIVE split(_)
split(data) ==
    IF \A i \in 1..Len(data) : data[i] # NL THEN <<data>>
    ELSE LET i == CHOOSE j \in 1..Len(data) :
                    data[j] = NL /\ \A k \in 1..(j - 1) : data[k] # NL
         IN <<SubSeq(data, 1, i - 1)>> \o split(SubSeq(data, i + 1, Len(data)))

\* json.loads(line) raises JSONDecodeError
JSONDecodeError(line) == Head(line) \notin {"c", "f", "o"}

\* json.loads(line), where it does not raise
loads(line) ==
    CASE Head(line) = "c" -> [type |-> "chunk", data |-> Tail(line)]
      [] Head(line) = "f" ->
            [type |-> "final", status |-> 0, result |-> Tail(line)]
      [] OTHER -> [type |-> "log"]

Running == [running |-> TRUE]

UnicodeDecodeError == [error |-> "UnicodeDecodeError"]

\* lines 514-517
ClosedWithoutFinal ==
    [status |-> -1, result |-> "Connection closed without final response"]

\* lines 493-508: the loop over the complete lines, from line i on, with the
\* stream_callback calls made so far
RECURSIVE ProcessLines(_, _, _)
ProcessLines(lines, i, called) ==
    IF i > Len(lines) THEN [calls |-> called, ret |-> Running]
    ELSE IF lines[i] = <<>> THEN ProcessLines(lines, i + 1, called)
    ELSE IF JSONDecodeError(lines[i]) THEN ProcessLines(lines, i + 1, called)
    ELSE LET response == loads(lines[i])
         IN IF response.type = "chunk"
            THEN ProcessLines(lines, i + 1, Append(called, response.data))
            ELSE IF response.type = "final"
            THEN [calls |-> called,
                  ret |-> [status |-> response.status,
                           result |-> response.result]]
            ELSE ProcessLines(lines, i + 1, called)

\* the message lines a container sends
MessageLines ==
    {<<"c", "x">>, <<"c", "C3", "A9">>, <<"f", "x">>, <<"?">>, <<"o">>, <<>>}

\* what the container has written of a line when the connection closes
Tails == {<<>>, <<"f", "x">>, <<"c", "x">>}

RECURSIVE Terminated(_)
Terminated(ls) ==
    IF ls = <<>> THEN <<>> ELSE Head(ls) \o <<NL>> \o Terminated(Tail(ls))

Streams ==
    {Terminated(ls) \o t : ls \in SeqsOf(MessageLines, 0, MaxLines), t \in Tails}

\* the command is sent; the container answers with a stream and closes
InitStream ==
    /\ sent \in Streams
    /\ pending = sent
    /\ partial_line = <<>>
    /\ calls = <<>>
    /\ ret = Running
    /\ IdleCompiler
    /\ IdleBatch
    /\ IdleRecursion

Init == InitCompiler \/ InitBatch \/ InitRecursion \/ InitStream

Top == stack[Len(stack)]

\* the call at the top of the stack raises ValueError, nothing catches it
RaiseKeyError ==
    /\ outcome = "running"
    /\ RaisesKeyError(Top.annotation, type_map)
    /\ outcome' = "ValueError"
    /\ stack' = <<>>
    /\ UNCHANGED <<classes, compilerVars, batchVars, streamVars>>

\* the call at the top of the stack makes its next recursive call
Enter ==
    /\ outcome = "running"
    /\ ~RaisesKeyError(Top.annotation, type_map)
    /\ Top.next <= Len(Callees(Top.annotation, type_map))
    /\ Len(stack) < RecursionLimit
    /\ stack' = Append(stack,
                Frame(Deref(Callees(Top.annotation, type_map)[Top.next],
                            classes)))
    /\ UNCHANGED <<classes, outcome, compilerVars, batchVars, streamVars>>

\* the next recursive call exceeds the recursion limit
Overflow ==
    /\ outcome = "running"
    /\ ~RaisesKeyError(Top.annotation, type_map)
    /\ Top.next <= Len(Callees(Top.annotation, type_map))
    /\ Len(stack) = RecursionLimit
    /\ outcome' = "RecursionError"
    /\ stack' = <<>>
    /\ UNCHANGED <<classes, compilerVars, batchVars, streamVars>>

\* the call at the top of the stack has made all its calls and returns
Leave ==
    /\ outcome = "running"
    /\ ~RaisesKeyError(Top.annotation, type_map)
    /\ Top.next > Len(Callees(Top.annotation, type_map))
    /\ IF Len(stack) = 1
       THEN stack' = <<>> /\ outcome' = "returned"
       ELSE /\ stack' = [SubSeq(stack, 1, Len(stack) - 1)
                            EXCEPT ![Len(stack) - 1].next = @ + 1]
            /\ outcome' = outcome
    /\ UNCHANGED <<classes, compilerVars, batchVars, streamVars>>

\* resolve(annotation)
Resolve ==
    /\ ann # NoInput
    /\ node = NotCalled
    /\ node' = get_type_info(ann, type_map)
    /\ UNCHANGED <<ann, callable, descriptor, batchVars, recursionVars, streamVars>>

\* compile(callable)
Compile ==
    /\ callable # NoInput
    /\ descriptor = NotCalled
    /\ descriptor' = function_to_json(callable)
    /\ UNCHANGED <<ann, callable, node, batchVars, recursionVars, streamVars>>

\* the compilation of a batch
CompileBatch ==
    /\ batch # NoInput
    /\ results = NotCalled
    /\ results' = [called |-> TRUE, outcomes |-> compile_batch(batch.callables)]
    /\ UNCHANGED <<batch, compilerVars, recursionVars, streamVars>>

\* lines 484-511: one pass of the loop, recv returning n bytes
Recv ==
    /\ ret = Running
    /\ pending # <<>>
    /\ \E n \in 1..Min(buffer_size, Len(pending)) :
        LET chunk == SubSeq(pending, 1, n)
        IN /\ pending' = SubSeq(pending, n + 1, Len(pending))
           /\ IF DecodeRaises(chunk)
              THEN /\ ret' = UnicodeDecodeError
                   /\ UNCHANGED <<partial_line, calls>>
              ELSE LET data == partial_line \o decode(chunk)
                       lines == split(data)
                       done == ProcessLines(SubSeq(lines, 1, Len(lines) - 1),
                                            1, calls)
                   IN /\ calls' = done.calls
                      /\ ret' = done.ret
                      /\ partial_line' =
                            IF done.ret = Running THEN Last(lines)
                            ELSE partial_line
    /\ UNCHANGED <<sent, compilerVars, batchVars, recursionVars>>

\* lines 485-486, 514-517: the connection is closed, recv returns b''
Close ==
    /\ ret = Running
    /\ pending = <<>>
    /\ ret' = ClosedWithoutFinal
    /\ UNCHANGED <<sent, pending, partial_line, calls, compilerVars, batchVars,
                   recursionVars>>

Next ==
    \/ Resolve
    \/ Compile
    \/ CompileBatch
    \/ RaiseKeyError
    \/ Enter
    \/ Overflow
    \/ Leave
    \/ Recv
    \/ Close

Spec == Init /\ [][Next]_vars

(***************************************************************************)
(* Properties of function_to_json.                                         *)
(***************************************************************************)
Reserved == "context_variables"

\* function_to_json returned a descriptor
Compiled == "function" \in DOMAIN descriptor

DeclaredNames == [i \in 1..Len(callable.signature) |-> callable.signature[i].name]

SchemaProperties == descriptor.function.parameters.properties

SchemaRequired == descriptor.function.parameters.required

RecordKinds == {"ValidatedRecord", "PlainRecord", "StructuralMapping"}

\* C1 (as the specification states it): parameters.required holds exactly
\* the names of the declared parameters without a default value, the
\* reserved context parameter excluded; the reserved parameter is never in
\* required.
C1_RequiredExcludesReserved ==
    Compiled =>
        Range(SchemaRequired) =
            {callable.signature[i].name : i \in
                {j \in 1..Len(callable.signature) :
                    /\ callable.signature[j].default = "_empty"
                    /\ callable.signature[j].name # Reserved}}

\* C2: the keys of parameters.properties are the declared parameter names in
\* declaration order with the reserved context parameter removed, wherever
\* it stands and whether or not it has a default.
C2_PropertiesKeys ==
    Compiled =>
        DictKeys(SchemaProperties)
            = SelectSeq(DeclaredNames, LAMBDA n : n # Reserved)

\* C2 witness: the reserved parameter is declared after another parameter
\* and has a default, and the descriptor is there.
C2_Witness ==
    /\ Compiled
    /\ Len(callable.signature) = 2
    /\ callable.signature[2].name = Reserved
    /\ callable.signature[2].default # "_empty"
    /\ Len(SchemaProperties) = 1

\* C3: every non-reserved parameter's entry in properties is the node
\* get_type_info returns for its annotation, no key removed or added: a
\* record kind keeps additionalProperties: false and a plain mapping keeps
\* its additionalProperties sub-schema.
C3_PropertiesAreResolved ==
    Compiled =>
        \A i \in 1..Len(callable.signature) :
            LET param == callable.signature[i]
                a == param.annotation
            IN param.name # Reserved =>
                /\ DictHas(SchemaProperties, param.name)
                /\ LET entry == DictGet(SchemaProperties, param.name)
                   IN /\ entry = get_type_info(a, type_map)
                      /\ a.kind \in RecordKinds =>
                            /\ "additionalProperties" \in DOMAIN entry
                            /\ entry.additionalProperties = False
                      /\ (a.kind = "Mapping" /\ a.args[2].kind \notin RecordKinds) =>
                            /\ "additionalProperties" \in DOMAIN entry
                            /\ entry.additionalProperties
                                = get_type_info(a.args[2], type_map)

\* C3 witness: a descriptor with a dataclass parameter and a Dict[str, int]
\* parameter.
C3_Witness ==
    /\ Compiled
    /\ \E i, j \in 1..Len(callable.signature) :
        /\ callable.signature[i].annotation = SamplePlain
        /\ callable.signature[j].annotation = Mapping(str, int)
        /\ callable.signature[i].name # Reserved
        /\ callable.signature[j].name # Reserved

(***************************************************************************)
(* Properties of get_type_info.                                            *)
(***************************************************************************)
\* get_type_info was called on ann and returned or raised
Resolved == node # NotCalled

\* get_type_info returned a node
Returned == Resolved /\ ~IsError(node)

Raised == Resolved /\ IsError(node)

R(a) == get_type_info(a, type_map)

\* C4 (as the specification states it): resolving Mapping(k, v), v being
\* resolvable, raises exactly when k does not resolve to {type: string}.
C4_FailsIffKeyNotResolvingToString ==
    (Resolved /\ ann.kind = "Mapping" /\ ~IsError(R(ann.args[2]))) =>
        (IsError(node) <=> R(ann.args[1]) # [type |-> "string"])

\* C4 (amended): resolving Mapping(k, v) raises at the key check exactly
\* when k is not the string scalar annotation itself, whatever the kind of
\* v and also when k resolves to {type: string}; with k the string scalar
\* it raises only by propagating an error of resolving v.
C4_FailsIffKeyNotStr ==
    (Resolved /\ ann.kind = "Mapping") =>
        LET k == ann.args[1]
            v == ann.args[2]
        IN /\ (k.kind # "Scalar" \/ k.name # "str") => IsError(node)
           /\ (k.kind = "Scalar" /\ k.name = "str") =>
                (IsError(node) <=> IsError(R(v)))

\* C4 witness: a mapping whose key resolves to {type: string} without being
\* the string scalar, with a record-kind value, has raised.
C4_Witness ==
    /\ Raised
    /\ ann.kind = "Mapping"
    /\ ann.args[1].kind # "Scalar"
    /\ R(ann.args[1]) = [type |-> "string"]
    /\ ann.args[2].kind \in RecordKinds

\* C5: for a Mapping with a string key, a record-kind value gives the
\* value's own node, without additionalProperties wrapper; every other
\* value gives {type: object, additionalProperties: resolve(value)} (an
\* error of resolve(value) is the error of the mapping).
C5_MappingValue ==
    (Resolved /\ ann.kind = "Mapping" /\ ann.args[1] = Scalar("str")) =>
        LET v == ann.args[2]
        IN /\ v.kind \in RecordKinds =>
                /\ node = R(v)
                /\ Returned =>
                    /\ "properties" \in DOMAIN node
                    /\ node.additionalProperties = False
           /\ (v.kind \notin RecordKinds /\ ~IsError(R(v))) =>
                node = [type |-> "object", additionalProperties |-> R(v)]
           /\ (v.kind \notin RecordKinds /\ IsError(R(v))) => IsError(node)

\* C5 witness: Dict[str, dataclass] has resolved to the dataclass's node.
C5_Witness ==
    /\ Returned
    /\ ann.kind = "Mapping"
    /\ ann.args[2].kind = "PlainRecord"
    /\ "properties" \in DOMAIN node
    /\ Len(node.properties) = 2

\* the members of a Union that are not the null scalar, in order
RECURSIVE NonNull(_)
NonNull(members) ==
    IF members = <<>> THEN <<>>
    ELSE (IF members[1].kind = "Scalar" /\ members[1].name = "NoneType"
          THEN <<>> ELSE <<members[1]>>)
         \o NonNull(Tail(members))

\* C6: a Union resolves its non-null members in declaration order; one
\* remaining member gives that member's node, more than one give
\* {oneOf: [...]} in declaration order, equal nodes kept apart.
C6_UnionCollapse ==
    (Returned /\ ann.kind = "Union") =>
        LET kept == NonNull(ann.args)
        IN /\ Len(kept) = 1 => node = R(kept[1])
           /\ Len(kept) > 1 =>
                /\ DOMAIN node = {"oneOf"}
                /\ Len(node.oneOf) = Len(kept)
                /\ \A i \in 1..Len(kept) : node.oneOf[i] = R(kept[i])

\* C6 witness: a Union of three members, null among them, has resolved to
\* a oneOf of two equal nodes.
C6_Witness ==
    /\ Returned
    /\ ann.kind = "Union"
    /\ Len(ann.args) = 3
    /\ Len(NonNull(ann.args)) = 2
    /\ "oneOf" \in DOMAIN node
    /\ node.oneOf[1] = node.oneOf[2]

\* C6 witness of the collapse: Union[T, null] has resolved to T's node,
\* an array.
C6_CollapseReached ==
    /\ Returned
    /\ ann.kind = "Union"
    /\ Len(NonNull(ann.args)) = 1
    /\ node = R(NonNull(ann.args)[1])
    /\ "items" \in DOMAIN node

\* the resolver, descending from a, meets a Mapping whose key is not the
\* string scalar
RECURSIVE ReachesBadMapping(_)
ReachesBadMapping(a) ==
    CASE a.kind = "Sequence" -> ReachesBadMapping(a.args[1])
      [] a.kind = "Mapping" ->
            \/ a.args[1].kind # "Scalar"
            \/ a.args[1].name # "str"
            \/ ReachesBadMapping(a.args[2])
      [] a.kind = "Union" ->
            \E i \in 1..Len(a.args) :
                /\ ~(a.args[i].kind = "Scalar" /\ a.args[i].name = "NoneType")
                /\ ReachesBadMapping(a.args[i])
      [] a.kind = "PlainRecord" ->
            \E i \in 1..Len(a.fields) : ReachesBadMapping(a.fields[i].type)
      [] a.kind = "StructuralMapping" ->
            \E i \in 1..Len(a.annotations) :
                ReachesBadMapping(a.annotations[i][2])
      [] OTHER -> FALSE

\* n has the shape of a schema node
IsNodeShape(n) ==
    \/ DOMAIN n = {"type"}
        /\ n.type \in {"string", "integer", "number", "boolean", "null"}
    \/ DOMAIN n = {"type", "items"} /\ n.type = "array"
    \/ DOMAIN n = {"type", "additionalProperties"} /\ n.type = "object"
    \/ DOMAIN n = {"type", "properties", "required", "additionalProperties"}
        /\ n.type = "object"
    \/ DOMAIN n = {"oneOf"}

C8_PlainRecord ==
    (Returned /\ ann.kind = "PlainRecord") =>
        LET fs == ann.fields
        IN /\ DictKeys(node.properties) = [i \in 1..Len(fs) |-> fs[i].name]
           /\ \A i \in 1..Len(fs) : node.properties[i][2] = R(fs[i].type)
           /\ \A i \in 1..Len(fs) :
                fs[i].name \in Range(node.required)
                    <=> (fs[i].default = "MISSING"
                            /\ fs[i].default_factory = "MISSING")
           /\ Range(node.required) \subseteq {fs[i].name : i \in 1..Len(fs)}

\* C8 witness: a dataclass with a field that has only a default_factory and
\* a field that has neither has resolved, the second alone being required.
C8_Witness ==
    /\ Returned
    /\ ann.kind = "PlainRecord"
    /\ Len(ann.fields) = 2
    /\ ann.fields[1].default_factory # "MISSING"
    /\ ann.fields[2].default = "MISSING"
    /\ ann.fields[2].default_factory = "MISSING"
    /\ node.required = <<ann.fields[2].name>>

\* C9: a TypedDict resolves to the properties of its keys, each resolved by
\* get_type_info; required is its declared required-keys set when it has
\* one, empty or a strict subset included, and all its keys otherwise.
C9_StructuralMapping ==
    (Returned /\ ann.kind = "StructuralMapping") =>
        LET anns == ann.annotations
            keys == {anns[i][1] : i \in 1..Len(anns)}
        IN /\ DictKeys(node.properties) = [i \in 1..Len(anns) |-> anns[i][1]]
           /\ \A i \in 1..Len(anns) : node.properties[i][2] = R(anns[i][2])
           /\ "required_keys" \in DOMAIN ann =>
                Range(node.required) = Range(ann.required_keys)
           /\ "required_keys" \notin DOMAIN ann =>
                Range(node.required) = keys

\* C9 witness: a TypedDict of two keys that declares one of them required
\* has resolved.
C9_Witness ==
    /\ Returned
    /\ ann.kind = "StructuralMapping"
    /\ Len(ann.annotations) = 2
    /\ "required_keys" \in DOMAIN ann
    /\ Len(ann.required_keys) = 1
    /\ Len(node.required) = 1

\* the node is or contains a reference to a named definition
RECURSIVE ContainsRef(_)
ContainsRef(n) ==
    \/ "ref" \in DOMAIN n
    \/ "items" \in DOMAIN n /\ ContainsRef(n.items)
    \/ "additionalProperties" \in DOMAIN n /\ ContainsRef(n.additionalProperties)
    \/ "properties" \in DOMAIN n
        /\ \E i \in 1..Len(n.properties) : ContainsRef(n.properties[i][2])
    \/ "oneOf" \in DOMAIN n /\ \E i \in 1..Len(n.oneOf) : ContainsRef(n.oneOf[i])
    \/ "anyOf" \in DOMAIN n /\ \E i \in 1..Len(n.anyOf) : ContainsRef(n.anyOf[i])

\* C10 (as the specification states it): no node get_type_info returns is
\* or contains a reference to a named definition.
C10_NoCrossReference == Returned => ~ContainsRef(node)

(***************************************************************************)
(* Propagation of the key error through function_to_json.                  *)
(***************************************************************************)
\* C11: when get_type_info reaches a Mapping with a non-string key in the
\* annotation of a parameter it resolves (the annotation itself, a Sequence
\* element, a Union member, a Mapping value, the type of a dataclass field
\* or of a TypedDict key), function_to_json raises the ValueError of the
\* key check and returns no descriptor.
C11_KeyErrorPropagates ==
    (descriptor # NotCalled /\ "signature" \in DOMAIN callable) =>
        ((\E i \in 1..Len(callable.signature) :
            /\ callable.signature[i].name # Reserved
            /\ ReachesBadMapping(callable.signature[i].annotation))
         => (descriptor = [error |-> "ValueError"] /\ ~Compiled))

\* C11 witness: compiling a callable whose second parameter is a dataclass
\* with a Dict[int, str] field, after a parameter that resolves, has raised.
C11_Witness ==
    /\ descriptor # NotCalled
    /\ IsError(descriptor)
    /\ "signature" \in DOMAIN callable
    /\ Len(callable.signature) = 2
    /\ callable.signature[1].annotation = Scalar("str")
    /\ callable.signature[1].name # Reserved
    /\ callable.signature[2].annotation.kind = "PlainRecord"
    /\ callable.signature[2].name # Reserved

(***************************************************************************)
(* Reflection failures and batches.                                        *)
(***************************************************************************)
Introspectable(f) == "signature" \in DOMAIN f

\* the outcomes of the introspectable callables of the batch, in order
RECURSIVE OutcomesOfIntrospectable(_, _)
OutcomesOfIntrospectable(fs, outcomes) ==
    IF fs = <<>> THEN <<>>
    ELSE (IF Introspectable(fs[1]) THEN <<outcomes[1]>> ELSE <<>>)
         \o OutcomesOfIntrospectable(Tail(fs), Tail(outcomes))

RECURSIVE ClassesIn(_)
ClassesIn(a) ==
    CASE a.kind = "Class" -> {a.name}
      [] a.kind = "Sequence" -> ClassesIn(a.args[1])
      [] a.kind = "Mapping" ->
            IF a.args[1] = Scalar("str") THEN ClassesIn(a.args[2]) ELSE {}
      [] a.kind = "Union" -> UNION {ClassesIn(a.args[i]) : i \in 1..Len(a.args)}
      [] a.kind = "PlainRecord" ->
            UNION {ClassesIn(a.fields[i].type) : i \in 1..Len(a.fields)}
      [] a.kind = "StructuralMapping" ->
            UNION {ClassesIn(a.annotations[i][2]) : i \in 1..Len(a.annotations)}
      [] OTHER -> {}

\* the classes contained in class c, directly or transitively
Contained(c) ==
    LET direct(n) == ClassesIn(classes[n])
        one == direct(c)
        two == one \cup UNION {direct(n) : n \in one}
    IN two \cup UNION {direct(n) : n \in two}

\* the class resolved contains a class that contains itself
SelfReferential ==
    \E c \in {"A"} \cup Contained("A") : c \in Contained(c)

\* C14 (as the specification states it): resolving a record type that
\* contains itself, directly or through Sequence, Mapping or Union, ends
\* with the ValueError of a detected cycle.
C14_CycleIsModelingError ==
    (classes # NoInput /\ outcome # "running" /\ SelfReferential) =>
        outcome = "ValueError"

(***************************************************************************)
(* Validated records, in full.                                             *)
(***************************************************************************)
Exported == ann.schema

ExportedProperties == Exported.properties

ExportedRequired ==
    IF "required" \in DOMAIN Exported THEN Exported.required ELSE <<>>

ExportedDefinitions ==
    IF "defs" \in DOMAIN Exported THEN Exported.defs ELSE <<>>

\* the property schema is itself a reference, and to a definition that the
\* export holds
IsDirectRefToPresent(prop_schema) ==
    /\ "ref" \in DOMAIN prop_schema
    /\ \E i \in 1..Len(ExportedDefinitions) :
            ExportedDefinitions[i][1] = prop_schema.ref[Len(prop_schema.ref)]

BodyOf(prop_schema) ==
    LET i == CHOOSE j \in 1..Len(ExportedDefinitions) :
                ExportedDefinitions[j][1] = prop_schema.ref[Len(prop_schema.ref)]
    IN ExportedDefinitions[i][2]

\* C15: a ValidatedRecord resolves to {type: object, properties, required,
\* additionalProperties: false}; required is the exported list, or empty;
\* the properties are the exported ones, in order and under their names,
\* where a direct reference to a present definition is replaced by that
\* definition's body as exported (references inside it stay) and every
\* other property schema is left as exported.
C15_ValidatedRecord ==
    (Resolved /\ ann.kind = "ValidatedRecord") =>
        /\ DOMAIN node = {"type", "properties", "required", "additionalProperties"}
        /\ node.type = "object"
        /\ node.additionalProperties = False
        /\ node.required = ExportedRequired
        /\ Len(node.properties) = Len(ExportedProperties)
        /\ \A i \in 1..Len(ExportedProperties) :
            /\ node.properties[i][1] = ExportedProperties[i][1]
            /\ node.properties[i][2] =
                IF IsDirectRefToPresent(ExportedProperties[i][2])
                THEN BodyOf(ExportedProperties[i][2])
                ELSE ExportedProperties[i][2]

\* a reference to Sub was replaced by Sub's body, which still refers to Leaf,
\* next to a property that was not replaced
C15_Witness ==
    /\ Resolved
    /\ ann.kind = "ValidatedRecord"
    /\ \E i \in 1..Len(ExportedProperties) :
        /\ IsDirectRefToPresent(ExportedProperties[i][2])
        /\ node.properties[i][2] = SubBody
        /\ ContainsRef(node.properties[i][2])
    /\ \E i \in 1..Len(ExportedProperties) :
        /\ ~IsDirectRefToPresent(ExportedProperties[i][2])
        /\ node.properties[i][2] = ExportedProperties[i][2]

\* a reference to a definition the export does not hold stays
C15_AbsentReached ==
    /\ Resolved
    /\ ann.kind = "ValidatedRecord"
    /\ ExportedDefinitions # <<>>
    /\ \E i \in 1..Len(ExportedProperties) :
        /\ ExportedProperties[i][2] = Ref("Gone")
        /\ node.properties[i][2] = Ref("Gone")

(***************************************************************************)
(* The command stream.                                                     *)
(***************************************************************************)
\* the newline-terminated messages of the stream sent
Messages ==
    LET lines == split(decode(sent))
    IN SubSeq(lines, 1, Len(lines) - 1)

IsMessage(line, tag) == line # <<>> /\ Head(line) = tag

\* the index of the first complete final message, 0 if there is none
FirstFinal ==
    IF \E i \in 1..Len(Messages) : IsMessage(Messages[i], "f")
    THEN CHOOSE i \in 1..Len(Messages) :
            /\ IsMessage(Messages[i], "f")
            /\ \A j \in 1..(i - 1) : ~IsMessage(Messages[j], "f")
    ELSE 0

\* the data of the chunk messages that precede the first final message
ExpectedCalls ==
    LET before == IF FirstFinal = 0 THEN Messages
                  ELSE SubSeq(Messages, 1, FirstFinal - 1)
        chunks == SelectSeq(before, LAMBDA line : IsMessage(line, "c"))
    IN [i \in 1..Len(chunks) |-> Tail(chunks[i])]

ExpectedReturn ==
    IF FirstFinal = 0 THEN ClosedWithoutFinal
    ELSE [status |-> 0, result |-> Tail(Messages[FirstFinal])]

\* C16 (as stated): however the stream is split across recv calls, the
\* function ends with the first complete final message's status and result,
\* or with status -1 if the connection closed without one, and has called
\* stream_callback once, in order, for each complete chunk message before
\* that final message and for nothing else.
C16_SplitIndependent ==
    (ret # NotCalled /\ ret # Running) =>
        /\ ret = ExpectedReturn
        /\ calls = ExpectedCalls

\* the same for streams of one-byte characters only
C16_AsciiSplitIndependent ==
    (ret # NotCalled /\ ret # Running /\ \A i \in 1..Len(sent) : sent[i] # "C3")
        => (ret = ExpectedReturn /\ calls = ExpectedCalls)

====
